---- MODULE Spec2Model ----
(***************************************************************************)
(* State-machine model of the pdfcrop web front end: the application       *)
(* controller (main.ts), the document viewer (pdf-viewer.ts) and the       *)
(* selection overlay (bbox-overlay.ts).                                    *)
(*                                                                         *)
(* Numbers that the code keeps as IEEE doubles are modelled as exact       *)
(* rationals <<n, d>> (d > 0, lowest terms), so that scale factors such as *)
(* 1.25, 0.9 and 2.7 and the divisions by the render scale are exact.      *)
(***************************************************************************)
EXTENDS Integers, Sequences, FiniteSets, Bags, TLC

(***************************************************************************)
(* Bounds of the model.                                                    *)
(***************************************************************************)
MaxTasks == 1
MaxCommands == 3
MaxTextLen == 4
MaxAsyncTasks == 2
MaxAsyncCommands == 4
MaxZooms == 2

(***************************************************************************)
(* Exact rational arithmetic.                                              *)
(***************************************************************************)
Abs(n) == IF n < 0 THEN -n ELSE n

RECURSIVE GCD(_, _)
GCD(a, b) == IF b = 0 THEN a ELSE GCD(b, a % b)

Rat(n, d) ==
    LET g == GCD(Abs(n), Abs(d))
        s == IF d < 0 THEN -1 ELSE 1
    IN  <<(s * n) \div g, (s * d) \div g>>

Num(n) == <<n, 1>>
RAdd(a, b) == Rat(a[1] * b[2] + b[1] * a[2], a[2] * b[2])
RSub(a, b) == Rat(a[1] * b[2] - b[1] * a[2], a[2] * b[2])
RMul(a, b) == Rat(a[1] * b[1], a[2] * b[2])
RDiv(a, b) == Rat(a[1] * b[2], a[2] * b[1])
RLe(a, b) == a[1] * b[2] <= b[1] * a[2]
RLt(a, b) == a[1] * b[2] < b[1] * a[2]
RMin(a, b) == IF RLe(a, b) THEN a ELSE b
RMax(a, b) == IF RLe(a, b) THEN b ELSE a
\* Math.floor
RFloor(a) == Num(a[1] \div a[2])

\* null is the empty tuple and a non-null value v is <<v>>
NULL == <<>>
Some(v) == <<v>>
Val(opt) == opt[1]
\* null for a document (documents are numbered from 1)
NoDoc == 0

(***************************************************************************)
(* The documents the user can choose and what the rendering library        *)
(* reports for them (numPages, and the scale-1.0 viewport of each page).   *)
(***************************************************************************)
Files == {1, 2}
numPages(doc) == IF doc = 1 THEN 2 ELSE 1

\* file.name
fileName(doc) ==
    IF doc = 1 THEN [base |-> "a", ext |-> ".PDF"] ELSE [base |-> "b", ext |-> ".pdf"]

\* page.getViewport({scale: 1.0}) in PDF points
defaultViewport(doc, pageNum) ==
    IF doc = 1 THEN [width |-> Num(100), height |-> Num(200)]
               ELSE [width |-> Num(200), height |-> Num(100)]

\* clientWidth/clientHeight of #canvas-container: 0 while #app-section is
\* hidden, otherwise what the layout gives it
containerSize(section) ==
    IF section = "hidden" THEN [clientWidth |-> 0, clientHeight |-> 0]
    ELSE [clientWidth |-> 260, clientHeight |-> 460]

\* pointer positions relative to the overlay canvas (CSS pixels)
Points == {<<0, 80>>, <<50, 80>>, <<-10, 200>>, <<300, 500>>}

(***************************************************************************)
(* State.                                                                  *)
(*   main.ts globals: currentPDFData, currentPDFFilename, currentPage,     *)
(*     totalPages, pageBboxes; DOM state it owns: loadingOverlay,          *)
(*     appSection (hidden or shown), thumbnails (the pages whose thumbnail *)
(*     has its click handler).                                             *)
(*   viewer:  the fields of the PDFViewer instance.                        *)
(*   canvas:  CSS size of the page canvas and of the overlay canvas.       *)
(*   overlay: the fields of the BBoxOverlay instance, the listeners it has *)
(*     attached and what is painted on the overlay canvas.                 *)
(*   tasks:   the async functions that are suspended at an await.          *)
(*   out:     what the last step did to the outside: callbacks of the      *)
(*     overlay, alerts, calls of the external module, rejections.          *)
(*   anchor, bboxSource: history variables (pointer-down position of the   *)
(*     gesture, the document each stored box was made from).               *)
(*   budget:  what the model still allows: how many async functions may be *)
(*     suspended at once, and how many more user commands (a file chosen,  *)
(*     a pointer-down, a click, a zoom step) may be given.                 *)
(*   rangeText, rangeSelect, pages, pageRange: input and results of the    *)
(*     page-range functions.                                               *)
(***************************************************************************)
VARIABLES currentPDFData, currentPDFFilename, currentPage, totalPages,
          pageBboxes, loadingOverlay, appSection, thumbnails,
          viewer, canvas, overlay, tasks, out,
          anchor, bboxSource, budget,
          rangeText, rangeSelect, pages, pageRange

appVars == <<currentPDFData, currentPDFFilename, currentPage, totalPages,
             pageBboxes, loadingOverlay, appSection, thumbnails>>
rangeVars == <<rangeText, rangeSelect, pages, pageRange>>
vars == <<currentPDFData, currentPDFFilename, currentPage, totalPages,
          pageBboxes, loadingOverlay, appSection, thumbnails,
          viewer, canvas, overlay, tasks, out,
          anchor, bboxSource, budget,
          rangeText, rangeSelect, pages, pageRange>>

(***************************************************************************)
(* PDFViewer: coordinate conversion.                                       *)
(***************************************************************************)
NoPage == [doc |-> NoDoc, pageNum |-> 0]
ZeroBbox == [left |-> Num(0), bottom |-> Num(0), right |-> Num(0), top |-> Num(0)]
ZeroRect == [x |-> Num(0), y |-> Num(0), width |-> Num(0), height |-> Num(0)]

getPageDimensions(v) ==
    IF v.currentPageObject = NoPage THEN NULL
    ELSE Some(defaultViewport(v.currentPageObject.doc, v.currentPageObject.pageNum))

canvasToPDF_noFlip(v, canvasX, canvasY) ==
    IF v.currentViewport = NULL THEN NULL
    ELSE IF getPageDimensions(v) = NULL THEN Some([x |-> Num(0), y |-> Num(0)])
    ELSE Some([x |-> RDiv(canvasX, v.scale), y |-> RDiv(canvasY, v.scale)])

canvasToPDF(v, canvasX, canvasY) ==
    IF v.currentViewport = NULL THEN NULL
    ELSE IF getPageDimensions(v) = NULL THEN Some([x |-> Num(0), y |-> Num(0)])
    ELSE Some([x |-> RDiv(canvasX, v.scale),
               y |-> RSub(Val(getPageDimensions(v)).height,
                          RDiv(canvasY, v.scale))])

pdfToCanvas_noFlip(v, pdfX, pdfY) ==
    IF v.currentViewport = NULL \/ getPageDimensions(v) = NULL THEN NULL
    ELSE Some([x |-> RMul(pdfX, v.scale), y |-> RMul(pdfY, v.scale)])

pdfToCanvas(v, pdfX, pdfY) ==
    IF v.currentViewport = NULL THEN NULL
    ELSE IF getPageDimensions(v) = NULL THEN NULL
    ELSE Some([x |-> RMul(pdfX, v.scale),
               y |-> RMul(RSub(Val(getPageDimensions(v)).height, pdfY),
                          v.scale)])

canvasRectToPDFBbox(v, rect) ==
    LET topLeft == canvasToPDF(v, rect.x, rect.y)
        bottomRight == canvasToPDF(v, RAdd(rect.x, rect.width),
                                      RAdd(rect.y, rect.height))
    IN  IF topLeft = NULL \/ bottomRight = NULL
        THEN ZeroBbox
        ELSE [left |-> Val(topLeft).x, bottom |-> Val(bottomRight).y,
              right |-> Val(bottomRight).x, top |-> Val(topLeft).y]

pdfBboxToCanvasRect(v, bbox) ==
    LET topLeft == pdfToCanvas(v, bbox.left, bbox.top)
        bottomRight == pdfToCanvas(v, bbox.right, bbox.bottom)
    IN  IF topLeft = NULL \/ bottomRight = NULL
        THEN ZeroRect
        ELSE [x |-> Val(topLeft).x, y |-> Val(topLeft).y,
              width |-> RSub(Val(bottomRight).x, Val(topLeft).x),
              height |-> RSub(Val(bottomRight).y, Val(topLeft).y)]

(***************************************************************************)
(* BBoxOverlay.                                                            *)
(***************************************************************************)
\* nothing painted on the overlay canvas
NoDrawing == [rect |-> NULL, handles |-> FALSE]

\* clear(): wipes the overlay canvas
clear(o) == [o EXCEPT !.drawn = NoDrawing]

\* cv is overlayCanvas.getBoundingClientRect()
getCanvasBbox(o, cv) ==
    LET x1 == RMax(Num(0), RMin(RMin(o.startX, o.currentX), cv.width))
        y1 == RMax(Num(0), RMin(RMin(o.startY, o.currentY), cv.height))
        x2 == RMax(Num(0), RMin(RMax(o.startX, o.currentX), cv.width))
        y2 == RMax(Num(0), RMin(RMax(o.startY, o.currentY), cv.height))
    IN  [x |-> x1, y |-> y1, width |-> RSub(x2, x1), height |-> RSub(y2, y1)]

\* this.pdfViewer is set by the constructor, so the null branch is never taken
canvasBboxToPdf(v, canvasBbox) == Some(canvasRectToPDFBbox(v, canvasBbox))

draw_alwaysHandles(o, cv) ==
    [o EXCEPT !.drawn = [rect |-> Some(getCanvasBbox(o, cv)), handles |-> TRUE]]

\* the overlay after draw(): the rectangle, and the handles unless drawing
draw(o, cv) ==
    [o EXCEPT !.drawn = [rect |-> Some(getCanvasBbox(o, cv)),
                         handles |-> ~o.isDrawing]]

startDrawing(o, x, y) ==
    clear([o EXCEPT !.isDrawing = TRUE,
                    !.startX = x, !.startY = y,
                    !.currentX = x, !.currentY = y,
                    !.documentListeners = TRUE])

\* the overlay after updateDrawing(x, y)
updateDrawing(o, cv, x, y) ==
    draw([o EXCEPT !.currentX = x, !.currentY = y], cv)

\* the box updateDrawing hands to onBboxChange, o being the overlay after it
changeBbox(o, v, cv) == canvasBboxToPdf(v, getCanvasBbox(o, cv))

finishDrawing_keepsDrawing(o, v, cv, x, y) ==
    LET o1 == [o EXCEPT !.currentX = x, !.currentY = y,
                        !.documentListeners = FALSE]
    IN  draw([o1 EXCEPT !.currentBbox = canvasBboxToPdf(v, getCanvasBbox(o1, cv))], cv)

\* the overlay after finishDrawing(x, y); the box handed to onBboxComplete
\* is its currentBbox
finishDrawing(o, v, cv, x, y) ==
    LET o1 == [o EXCEPT !.currentX = x, !.currentY = y,
                        !.isDrawing = FALSE,
                        !.documentListeners = FALSE]
    IN  draw([o1 EXCEPT !.currentBbox = canvasBboxToPdf(v, getCanvasBbox(o1, cv))], cv)

setBbox_endsGesture(o, v, cv, pdfBbox) ==
    IF pdfBbox = NULL
    THEN clear([o EXCEPT !.currentBbox = NULL, !.isDrawing = FALSE])
    ELSE LET canvasRect == pdfBboxToCanvasRect(v, Val(pdfBbox))
         IN  draw([o EXCEPT !.currentBbox = pdfBbox,
                            !.isDrawing = FALSE,
                            !.startX = canvasRect.x,
                            !.startY = canvasRect.y,
                            !.currentX = RAdd(canvasRect.x, canvasRect.width),
                            !.currentY = RAdd(canvasRect.y, canvasRect.height)], cv)

\* pdfBbox is null or <<box>>
setBbox(o, v, cv, pdfBbox) ==
    IF pdfBbox = NULL
    THEN clear([o EXCEPT !.currentBbox = NULL])
    ELSE LET canvasRect == pdfBboxToCanvasRect(v, Val(pdfBbox))
         IN  draw([o EXCEPT !.currentBbox = pdfBbox,
                            !.startX = canvasRect.x,
                            !.startY = canvasRect.y,
                            !.currentX = RAdd(canvasRect.x, canvasRect.width),
                            !.currentY = RAdd(canvasRect.y, canvasRect.height)], cv)

(***************************************************************************)
(* PDFViewer: rendering.                                                   *)
(***************************************************************************)
MinScale == Rat(1, 2)
MaxScale == Rat(3, 1)
DefaultContainerWidth == 800
DefaultContainerHeight == 600
ContainerPadding == 60

\* the scale renderPage computes when the scale was not set manually
fitScale(doc, pageNum, container) ==
    LET w == IF container.clientWidth = 0 THEN DefaultContainerWidth
                                          ELSE container.clientWidth
        h == IF container.clientHeight = 0 THEN DefaultContainerHeight
                                           ELSE container.clientHeight
        scaleX == RDiv(Num(w - ContainerPadding), defaultViewport(doc, pageNum).width)
        scaleY == RDiv(Num(h - ContainerPadding), defaultViewport(doc, pageNum).height)
    IN  RMax(MinScale, RMin(RMin(scaleX, scaleY), MaxScale))

\* page.getViewport({scale})
getViewport(doc, pageNum, scale) ==
    [width |-> RMul(defaultViewport(doc, pageNum).width, scale),
     height |-> RMul(defaultViewport(doc, pageNum).height, scale)]

\* the two guards at the head of renderPage
renderPageCheck(v, pageNum) ==
    IF v.pdfDocument = NoDoc THEN "No PDF document loaded"
    ELSE IF pageNum < 1 \/ pageNum > v.totalPages THEN "Invalid page number"
    ELSE "ok"

\* renderPage from the resolution of getPage to the await of render():
\* the viewer after it
renderPageLayout(v, doc, pageNum, container) ==
    LET s == IF v.manualScale THEN v.scale ELSE fitScale(doc, pageNum, container)
    IN  [v EXCEPT !.currentPageObject = [doc |-> doc, pageNum |-> pageNum],
                  !.currentPage = pageNum,
                  !.scale = s,
                  !.currentViewport = Some(getViewport(doc, pageNum, s))]

\* the CSS size renderPage gives both canvases
canvasStyleSize(v) ==
    [width |-> RFloor(Val(v.currentViewport).width),
     height |-> RFloor(Val(v.currentViewport).height)]

setScale_noClamp(v, newScale) ==
    [v EXCEPT !.scale = newScale, !.manualScale = TRUE]

\* setScale up to its call of renderPage
setScale(v, newScale) ==
    [v EXCEPT !.scale = RMax(MinScale, RMin(MaxScale, newScale)),
              !.manualScale = TRUE]

\* fitToWidth up to the call of renderPage in setScale
fitToWidth(v, container) ==
    IF v.currentPageObject = NoPage THEN v
    ELSE LET w == IF container.clientWidth = 0 THEN DefaultContainerWidth
                                               ELSE container.clientWidth
         IN  setScale(v, RDiv(Num(w - ContainerPadding),
                              Val(getPageDimensions(v)).width))

(***************************************************************************)
(* The external module (black box): the box detectBbox returns.            *)
(***************************************************************************)
detectBbox(doc, pageIndex) ==
    IF doc = 1
    THEN [left |-> Num(10 + 10 * pageIndex), bottom |-> Num(20),
          right |-> Num(90), top |-> Num(180)]
    ELSE [left |-> Num(10), bottom |-> Num(10),
          right |-> Num(190), top |-> Num(90)]

(***************************************************************************)
(* main.ts helpers.                                                        *)
(***************************************************************************)
\* Map.set
MapSet(m, k, val) == [x \in (DOMAIN m) \cup {k} |-> IF x = k THEN val ELSE m[x]]
EmptyMap == [x \in {} |-> 0]

renderBboxOverlay_keepsDrawing(o, v, cv, bboxes, page) ==
    IF (page - 1) \in DOMAIN bboxes
    THEN setBbox(o, v, cv, Some(bboxes[page - 1]))
    ELSE o

\* the overlay after renderBboxOverlay()
renderBboxOverlay(o, v, cv, bboxes, page) ==
    IF (page - 1) \in DOMAIN bboxes
    THEN setBbox(o, v, cv, Some(bboxes[page - 1]))
    ELSE clear(o)

\* an async function suspended at an await: which one, the await it is at,
\* and its locals (the document and page it works on; for handleCrop the
\* arguments of the cropPdf call in flight)
NoArgs == [options |-> NULL, bboxes |-> NULL, pageRange |-> NULL]
Task(op, pc, doc, pageNum) ==
    [op |-> op, pc |-> pc, doc |-> doc, pageNum |-> pageNum, args |-> NoArgs]
Running == BagToSet(tasks)
Suspend(t) == tasks (+) SetToBag({t})
Resume(t) == tasks (-) SetToBag({t})
Out(what, bbox, msg) == [what |-> what, bbox |-> bbox, msg |-> msg]
CanStart == BagCardinality(tasks) < budget.tasks

(***************************************************************************)
(* Initial state: initialize() has created the viewer and the overlay (the *)
(* overlay constructor calls enable()); no document is loaded.             *)
(***************************************************************************)
InitViewer ==
    [pdfDocument |-> NoDoc, currentPage |-> 1, totalPages |-> 0,
     scale |-> Num(1), manualScale |-> FALSE,
     currentPageObject |-> NoPage, currentViewport |-> NULL,
     onPageChange |-> FALSE]

InitOverlay ==
    [isDrawing |-> FALSE,
     startX |-> Num(0), startY |-> Num(0),
     currentX |-> Num(0), currentY |-> Num(0),
     currentBbox |-> NULL,
     canvasListeners |-> TRUE, documentListeners |-> FALSE,
     drawn |-> NoDrawing]

\* a canvas element that was never sized is 300 x 150
InitCanvas == [width |-> Num(300), height |-> Num(150)]

InitApp ==
    /\ currentPDFData = NoDoc
    /\ currentPDFFilename = NoDoc
    /\ currentPage = 1
    /\ totalPages = 0
    /\ pageBboxes = EmptyMap
    /\ loadingOverlay = "hidden"
    /\ appSection = "hidden"
    /\ thumbnails = {}
    /\ viewer = InitViewer
    /\ canvas = InitCanvas
    /\ overlay = InitOverlay
    /\ tasks = EmptyBag
    /\ out = <<>>
    /\ anchor = <<0, 0>>
    /\ bboxSource = EmptyMap

Init ==
    /\ InitApp
    /\ budget = [tasks |-> MaxTasks, commands |-> MaxCommands]
    /\ rangeText = <<>>
    /\ rangeSelect = "all"
    /\ pages = NULL
    /\ pageRange = NULL

(***************************************************************************)
(* Overlay events.  A pointer-down reaches the overlay through the         *)
(* listeners enable() puts on the page canvas, so its position is inside   *)
(* the canvas; moves and ups reach it through the document-level listeners *)
(* startDrawing attaches, from anywhere.  The mouse handlers and the touch  *)
(* handlers run the same code, so one action stands for both.              *)
(***************************************************************************)
InsideCanvas(p) ==
    /\ RLe(Num(0), Num(p[1])) /\ RLe(Num(p[1]), canvas.width)
    /\ RLe(Num(0), Num(p[2])) /\ RLe(Num(p[2]), canvas.height)

\* main.ts onBboxComplete: the selection map after it
onBboxComplete(bboxes, page, pdfBbox) ==
    IF pdfBbox # NULL THEN MapSet(bboxes, page - 1, Val(pdfBbox)) ELSE bboxes

\* onMouseDown / onTouchStart
PointerDown(p) ==
    /\ overlay.canvasListeners
    /\ InsideCanvas(p)
    /\ budget.commands > 0
    /\ budget' = [budget EXCEPT !.commands = @ - 1]
    /\ overlay' = startDrawing(overlay, Num(p[1]), Num(p[2]))
    /\ anchor' = p
    /\ out' = <<>>
    /\ UNCHANGED <<appVars, viewer, canvas, tasks, bboxSource, rangeVars>>

\* onMouseMove / onTouchMove
PointerMove(p) ==
    /\ IF overlay.documentListeners /\ overlay.isDrawing
       THEN /\ overlay' = updateDrawing(overlay, canvas, Num(p[1]), Num(p[2]))
            /\ out' = <<Out("onBboxChange", changeBbox(overlay', viewer, canvas), "")>>
       ELSE /\ overlay' = overlay
            /\ out' = <<>>
    /\ UNCHANGED <<appVars, viewer, canvas, tasks, anchor, bboxSource, budget, rangeVars>>

\* onMouseUp / onTouchEnd, and the onBboxComplete callback of main.ts
PointerUp(p) ==
    /\ IF overlay.documentListeners /\ overlay.isDrawing
       THEN /\ overlay' = finishDrawing(overlay, viewer, canvas, Num(p[1]), Num(p[2]))
            /\ out' = <<Out("onBboxComplete", overlay'.currentBbox, "")>>
            /\ pageBboxes' = onBboxComplete(pageBboxes, currentPage, overlay'.currentBbox)
            /\ bboxSource' = [k \in DOMAIN pageBboxes' |->
                                 IF k = currentPage - 1
                                 THEN viewer.currentPageObject.doc
                                 ELSE bboxSource[k]]
       ELSE /\ overlay' = overlay
            /\ out' = <<>>
            /\ UNCHANGED <<pageBboxes, bboxSource>>
    /\ UNCHANGED <<currentPDFData, currentPDFFilename, currentPage, totalPages,
                   loadingOverlay, appSection, thumbnails,
                   viewer, canvas, tasks, anchor, budget, rangeVars>>

(***************************************************************************)
(* Starting an async function.  A handler that calls viewer.renderPage     *)
(* runs its two guards at once; when they pass, the function is suspended  *)
(* at the await of getPage, asked of the document the viewer holds at the  *)
(* call; when one fails, the returned promise is rejected.                 *)
(***************************************************************************)
\* how each caller of viewer.renderPage treats its rejection
RejectionOut(op, msg) ==
    CASE op = "handleFileUpload" -> <<Out("alert", NULL, msg)>>
      [] op = "thumbnailClick" -> <<Out("console.error", NULL, msg)>>
      [] OTHER -> <<Out("unhandledrejection", NULL, msg)>>

CallRenderPage(op, v, pageNum) ==
    IF renderPageCheck(v, pageNum) = "ok"
    THEN /\ tasks' = Suspend(Task(op, "getPage", v.pdfDocument, pageNum))
         /\ out' = <<>>
    ELSE /\ tasks' = tasks
         /\ out' = RejectionOut(op, renderPageCheck(v, pageNum))

(***************************************************************************)
(* handleFileUpload.                                                       *)
(***************************************************************************)
\* the file input changes or a PDF is dropped: up to await file.arrayBuffer()
FileChosen(file) ==
    /\ CanStart
    /\ budget.commands > 0
    /\ budget' = [budget EXCEPT !.commands = @ - 1]
    /\ loadingOverlay' = "shown"
    /\ tasks' = Suspend(Task("handleFileUpload", "arrayBuffer", file, 0))
    /\ out' = <<>>
    /\ UNCHANGED <<appSection, currentPDFData, currentPDFFilename, currentPage, totalPages,
                   pageBboxes, thumbnails, viewer, canvas, overlay,
                   anchor, bboxSource, rangeVars>>

\* the bytes arrive: up to the await of getDocument in loadPDF
ArrayBufferResolved(t) ==
    /\ t \in Running /\ t.op = "handleFileUpload" /\ t.pc = "arrayBuffer"
    /\ currentPDFData' = t.doc
    /\ currentPDFFilename' = t.doc
    /\ pageBboxes' = EmptyMap
    /\ bboxSource' = EmptyMap
    /\ tasks' = Resume(t) (+) SetToBag({[t EXCEPT !.pc = "getDocument"]})
    /\ out' = <<>>
    /\ UNCHANGED <<currentPage, totalPages, loadingOverlay, appSection, thumbnails,
                   viewer, canvas, overlay, anchor, budget, rangeVars>>

\* loadPDF after getDocument: up to the await of getPage in renderPage(1)
GetDocumentResolved(t) ==
    /\ t \in Running /\ t.pc = "getDocument"
    /\ viewer' = [viewer EXCEPT !.pdfDocument = t.doc,
                                !.totalPages = numPages(t.doc)]
    /\ tasks' = Resume(t) (+) SetToBag({[t EXCEPT !.pc = "getPage", !.pageNum = 1]})
    /\ out' = <<>>
    /\ UNCHANGED <<appVars, canvas, overlay, anchor, bboxSource, budget, rangeVars>>

(***************************************************************************)
(* viewer.renderPage, for every caller.                                    *)
(***************************************************************************)
\* getPage resolves: the page, the scale, the viewport and the size of both
\* canvases are set; sizing the overlay canvas wipes it
GetPageResolved(t) ==
    /\ t \in Running /\ t.pc = "getPage"
    /\ viewer' = renderPageLayout(viewer, t.doc, t.pageNum, containerSize(appSection))
    /\ canvas' = canvasStyleSize(viewer')
    /\ overlay' = clear(overlay)
    /\ tasks' = Resume(t) (+) SetToBag({[t EXCEPT !.pc = "render"]})
    /\ out' = <<>>
    /\ UNCHANGED <<appVars, anchor, bboxSource, budget, rangeVars>>

pageAfterChange_ifLatest(v, page, pageNum) ==
    IF v.onPageChange /\ v.currentPage = pageNum THEN pageNum ELSE page

\* what the onPageChange callback of main.ts does to currentPage
pageAfterChange(v, page, pageNum) == IF v.onPageChange THEN pageNum ELSE page

\* what it does to the overlay
overlayAfterChange(o, v, cv, bboxes, page, pageNum) ==
    IF v.onPageChange THEN renderBboxOverlay(o, v, cv, bboxes, pageNum) ELSE o

\* render() resolves: onPageChange runs, renderPage returns and its caller
\* goes on to its next await or to its end
RenderResolved(t) ==
    /\ t \in Running /\ t.pc = "render"
    /\ LET pageCb == pageAfterChange(viewer, currentPage, t.pageNum)
           ovCb == overlayAfterChange(overlay, viewer, canvas, pageBboxes,
                                      currentPage, t.pageNum)
       IN  CASE t.op = "handleFileUpload" ->
                  \* loadPDF returns this.totalPages; generateThumbnails starts
                  /\ totalPages' = viewer.totalPages
                  /\ currentPage' = 1
                  /\ viewer' = [viewer EXCEPT !.onPageChange = TRUE]
                  /\ overlay' = ovCb
                  /\ thumbnails' = {}
                  /\ IF viewer.totalPages >= 1
                     THEN /\ tasks' = Resume(t) (+)
                                 SetToBag({[t EXCEPT !.pc = "thumbnail", !.pageNum = 1]})
                          /\ loadingOverlay' = loadingOverlay
                     ELSE /\ tasks' = Resume(t) (+)
                                 SetToBag({Task("fitToPage", "timer", NoDoc, 0)})
                          /\ loadingOverlay' = "hidden"
                  /\ appSection' = IF viewer.totalPages >= 1 THEN appSection ELSE "shown"
             [] t.op = "thumbnailClick" ->
                  \* renderPage of main.ts: renderBboxOverlay() once more
                  /\ currentPage' = pageCb
                  /\ overlay' = renderBboxOverlay(ovCb, viewer, canvas, pageBboxes, pageCb)
                  /\ tasks' = Resume(t)
                  /\ UNCHANGED <<totalPages, viewer, thumbnails, loadingOverlay, appSection>>
             [] OTHER ->
                  /\ currentPage' = pageCb
                  /\ overlay' = ovCb
                  /\ tasks' = Resume(t)
                  /\ UNCHANGED <<totalPages, viewer, thumbnails, loadingOverlay, appSection>>
    /\ out' = <<>>
    /\ UNCHANGED <<currentPDFData, currentPDFFilename, pageBboxes, canvas,
                   anchor, bboxSource, budget, rangeVars>>

\* generateThumbnails: one turn of its loop (the animation frame and
\* renderThumbnail, which catches its own errors), then the click handler
\* of thumbnail i; after the last turn handleFileUpload ends
ThumbnailRendered(t) ==
    /\ t \in Running /\ t.pc = "thumbnail"
    /\ thumbnails' = thumbnails \cup {t.pageNum}
    /\ IF t.pageNum + 1 <= totalPages
       THEN /\ tasks' = Resume(t) (+) SetToBag({[t EXCEPT !.pageNum = t.pageNum + 1]})
            /\ loadingOverlay' = loadingOverlay
            /\ appSection' = appSection
       ELSE /\ tasks' = Resume(t) (+) SetToBag({Task("fitToPage", "timer", NoDoc, 0)})
            /\ loadingOverlay' = "hidden"
            /\ appSection' = "shown"
    /\ out' = <<>>
    /\ UNCHANGED <<currentPDFData, currentPDFFilename, currentPage, totalPages,
                   pageBboxes, viewer, canvas, overlay,
                   anchor, bboxSource, budget, rangeVars>>

\* the setTimeout(..., 0) of handleFileUpload runs: fitToPage()
TimerFired(t) ==
    /\ t \in Running /\ t.pc = "timer"
    /\ viewer' = [viewer EXCEPT !.manualScale = FALSE]
    /\ IF renderPageCheck(viewer, viewer.currentPage) = "ok"
       THEN /\ tasks' = Resume(t) (+)
                   SetToBag({Task("fitToPage", "getPage", viewer.pdfDocument,
                                  viewer.currentPage)})
            /\ out' = <<>>
       ELSE /\ tasks' = Resume(t)
            /\ out' = RejectionOut("fitToPage", renderPageCheck(viewer, viewer.currentPage))
    /\ UNCHANGED <<appVars, canvas, overlay, anchor, bboxSource, budget, rangeVars>>

AwaitRejected_keepsLoading(t) ==
    /\ t \in Running
    /\ t.pc \in {"arrayBuffer", "getDocument", "getPage", "render"}
    /\ tasks' = Resume(t)
    /\ out' = RejectionOut(t.op, "Failed")
    /\ UNCHANGED <<appSection, currentPDFData, currentPDFFilename, currentPage, totalPages,
                   pageBboxes, thumbnails, viewer, canvas, overlay, loadingOverlay,
                   anchor, bboxSource, budget, rangeVars>>

\* an awaited promise of the rendering library or of the file API rejects
AwaitRejected(t) ==
    /\ t \in Running
    /\ t.pc \in {"arrayBuffer", "getDocument", "getPage", "render"}
    /\ tasks' = Resume(t)
    /\ out' = RejectionOut(t.op, "Failed")
    /\ loadingOverlay' = IF t.op = "handleFileUpload" THEN "hidden" ELSE loadingOverlay
    /\ UNCHANGED <<appSection, currentPDFData, currentPDFFilename, currentPage, totalPages,
                   pageBboxes, thumbnails, viewer, canvas, overlay,
                   anchor, bboxSource, budget, rangeVars>>

(***************************************************************************)
(* Page-range text.  A text is a sequence of one-character strings.        *)
(***************************************************************************)
DigitSeq == <<"0", "1", "2", "3", "4", "5", "6", "7", "8", "9">>
Digits == {DigitSeq[i] : i \in 1..Len(DigitSeq)}

DigitVal(c) == (CHOOSE i \in 1..Len(DigitSeq) : DigitSeq[i] = c) - 1

\* index of the first c in s, 0 when there is none
IndexOf(s, c) ==
    IF \E i \in 1..Len(s) : s[i] = c
    THEN CHOOSE i \in 1..Len(s) : s[i] = c /\ \A j \in 1..(i - 1) : s[j] # c
    ELSE 0

\* String.prototype.split with a one-character separator
RECURSIVE split(_, _)
split(s, sep) ==
    IF IndexOf(s, sep) = 0 THEN <<s>>
    ELSE <<SubSeq(s, 1, IndexOf(s, sep) - 1)>>
         \o split(SubSeq(s, IndexOf(s, sep) + 1, Len(s)), sep)

RECURSIVE trimStart(_)
trimStart(s) == IF s # <<>> /\ Head(s) = " " THEN trimStart(Tail(s)) ELSE s

RECURSIVE trimEnd(_)
trimEnd(s) ==
    IF s # <<>> /\ s[Len(s)] = " " THEN trimEnd(SubSeq(s, 1, Len(s) - 1)) ELSE s

\* String.prototype.trim
trim(s) == trimEnd(trimStart(s))

\* the longest prefix of s made of digits
RECURSIVE digitPrefix(_)
digitPrefix(s) ==
    IF s # <<>> /\ Head(s) \in Digits THEN <<Head(s)>> \o digitPrefix(Tail(s))
    ELSE <<>>

RECURSIVE decimal(_)
decimal(ds) ==
    IF ds = <<>> THEN 0
    ELSE 10 * decimal(SubSeq(ds, 1, Len(ds) - 1)) + DigitVal(ds[Len(ds)])

\* parseInt on a text without sign characters: leading blanks are skipped,
\* the digits that follow are read and whatever comes after them is
\* ignored; NaN (here null) when no digit is there
parseInt(s) ==
    IF digitPrefix(trimStart(s)) = <<>> THEN NULL
    ELSE Some(decimal(digitPrefix(trimStart(s))))

SetAdd_duplicates(set, x) == Append(set, x)

\* Set.prototype.add on a Set kept in insertion order
SetAdd(set, x) == IF \E i \in 1..Len(set) : set[i] = x THEN set ELSE Append(set, x)

RECURSIVE addRange_eitherOrder(_, _, _)
addRange_eitherOrder(set, start, end) ==
    IF start = end THEN SetAdd(set, start - 1)
    ELSE IF start < end
         THEN addRange_eitherOrder(SetAdd(set, start - 1), start + 1, end)
         ELSE addRange_eitherOrder(SetAdd(set, start - 1), start - 1, end)

\* for (let i = start; i <= end; i++) pages.add(i - 1)
RECURSIVE addRange(_, _, _)
addRange(set, start, end) ==
    IF start <= end THEN addRange(SetAdd(set, start - 1), start + 1, end) ELSE set

\* one turn of the loop of parsePageRange over the parts
addPart(set, part) ==
    IF IndexOf(part, "-") # 0
    THEN LET bounds == split(part, "-")
             start == parseInt(trim(bounds[1]))
             end == parseInt(trim(bounds[2]))
         IN  IF start = NULL \/ end = NULL THEN set
             ELSE addRange(set, Val(start), Val(end))
    ELSE IF parseInt(part) = NULL THEN set
         ELSE SetAdd(set, Val(parseInt(part)) - 1)

RECURSIVE addParts(_, _)
addParts(set, parts) ==
    IF parts = <<>> THEN set ELSE addParts(addPart(set, trim(Head(parts))), Tail(parts))

\* Array.prototype.sort((a, b) => a - b)
RECURSIVE insertSorted(_, _)
insertSorted(sorted, x) ==
    IF sorted = <<>> THEN <<x>>
    ELSE IF x < Head(sorted) THEN <<x>> \o sorted
    ELSE <<Head(sorted)>> \o insertSorted(Tail(sorted), x)

RECURSIVE sortNumeric(_)
sortNumeric(a) ==
    IF a = <<>> THEN <<>>
    ELSE insertSorted(sortNumeric(SubSeq(a, 1, Len(a) - 1)), a[Len(a)])

parsePageRange(text) == sortNumeric(addParts(<<>>, split(text, ",")))

\* select is the value of #page-range-select, text that of #page-range-text
getPageRange(select, text, page) ==
    CASE select = "all" -> NULL
      [] select = "current" -> Some(<<page - 1>>)
      [] select = "custom" ->
            IF Len(parsePageRange(text)) > 0 THEN Some(parsePageRange(text)) ELSE NULL
      [] OTHER -> NULL

(***************************************************************************)
(* Page navigation.                                                        *)
(***************************************************************************)
\* click on #prev-page: previousPage()
PrevPageClicked ==
    /\ budget.commands > 0
    /\ budget' = [budget EXCEPT !.commands = @ - 1]
    /\ CanStart
    /\ IF currentPage > 1 /\ viewer.currentPage > 1
       THEN CallRenderPage("navigate", viewer, viewer.currentPage - 1)
       ELSE tasks' = tasks /\ out' = <<>>
    /\ UNCHANGED <<appVars, viewer, canvas, overlay, anchor, bboxSource, rangeVars>>

\* click on #next-page: nextPage()
NextPageClicked ==
    /\ budget.commands > 0
    /\ budget' = [budget EXCEPT !.commands = @ - 1]
    /\ CanStart
    /\ IF currentPage < totalPages /\ viewer.currentPage < viewer.totalPages
       THEN CallRenderPage("navigate", viewer, viewer.currentPage + 1)
       ELSE tasks' = tasks /\ out' = <<>>
    /\ UNCHANGED <<appVars, viewer, canvas, overlay, anchor, bboxSource, rangeVars>>

\* Enter in #current-page holding the number pageNum: goToPage(pageNum)
PageNumberEntered(pageNum) ==
    /\ budget.commands > 0
    /\ budget' = [budget EXCEPT !.commands = @ - 1]
    /\ CanStart
    /\ IF pageNum >= 1 /\ pageNum <= totalPages
       THEN CallRenderPage("navigate", viewer, pageNum)
       ELSE tasks' = tasks /\ out' = <<>>
    /\ UNCHANGED <<appVars, viewer, canvas, overlay, anchor, bboxSource, rangeVars>>

\* click on the thumbnail of page i: currentPage = i, then renderPage(i)
ThumbnailClicked(i) ==
    /\ budget.commands > 0
    /\ budget' = [budget EXCEPT !.commands = @ - 1]
    /\ CanStart
    /\ i \in thumbnails
    /\ currentPage' = i
    /\ CallRenderPage("thumbnailClick", viewer, i)
    /\ UNCHANGED <<currentPDFData, currentPDFFilename, totalPages, pageBboxes,
                   loadingOverlay, appSection, thumbnails, viewer, canvas, overlay,
                   anchor, bboxSource, rangeVars>>

(***************************************************************************)
(* Zoom.                                                                   *)
(***************************************************************************)
\* zoomIn (1.25), zoomOut (1/1.25), wheel zoom (1.1, 0.9)
ZoomFactors == {Rat(5, 4), Rat(4, 5), Rat(11, 10), Rat(9, 10)}

\* setScale(scale * factor)
Zoomed(factor) ==
    /\ CanStart
    /\ budget.commands > 0
    /\ budget' = [budget EXCEPT !.commands = @ - 1]
    /\ viewer' = setScale(viewer, RMul(viewer.scale, factor))
    /\ CallRenderPage("zoom", viewer', viewer'.currentPage)
    /\ UNCHANGED <<appVars, canvas, overlay, anchor, bboxSource, rangeVars>>

\* click on #zoom-fit, or a window resize while a document is loaded and
\* the scale was not set manually: fitToPage()
FitToPage ==
    /\ budget.commands > 0
    /\ budget' = [budget EXCEPT !.commands = @ - 1]
    /\ CanStart
    /\ viewer' = [viewer EXCEPT !.manualScale = FALSE]
    /\ CallRenderPage("fitToPage", viewer', viewer'.currentPage)
    /\ UNCHANGED <<appVars, canvas, overlay, anchor, bboxSource, rangeVars>>

(***************************************************************************)
(* Reset, auto-detect, crop.                                               *)
(***************************************************************************)
\* click on #reset-crop
ResetClicked ==
    /\ budget.commands > 0
    /\ budget' = [budget EXCEPT !.commands = @ - 1]
    /\ pageBboxes' = EmptyMap
    /\ bboxSource' = EmptyMap
    /\ overlay' = clear(overlay)
    /\ out' = <<>>
    /\ UNCHANGED <<currentPDFData, currentPDFFilename, currentPage, totalPages,
                   loadingOverlay, appSection, thumbnails, viewer, canvas, tasks,
                   anchor, rangeVars>>

\* handleAutoDetect up to the await of detectBbox(pdfCopy, currentPage - 1)
AutoDetectClicked ==
    /\ budget.commands > 0
    /\ budget' = [budget EXCEPT !.commands = @ - 1]
    /\ CanStart
    /\ currentPDFData # NoDoc
    /\ loadingOverlay' = "shown"
    /\ tasks' = Suspend(Task("handleAutoDetect", "detectBbox", currentPDFData,
                             currentPage - 1))
    /\ out' = <<Out("detectBbox", NULL, "")>>
    /\ UNCHANGED <<appSection, currentPDFData, currentPDFFilename, currentPage, totalPages,
                   pageBboxes, thumbnails, viewer, canvas, overlay,
                   anchor, bboxSource, rangeVars>>

\* detectBbox resolves: the box is stored under currentPage - 1 and drawn
DetectResolved(t) ==
    /\ t \in Running /\ t.pc = "detectBbox"
    /\ pageBboxes' = MapSet(pageBboxes, currentPage - 1, detectBbox(t.doc, t.pageNum))
    /\ bboxSource' = MapSet(bboxSource, currentPage - 1, t.doc)
    /\ overlay' = setBbox(overlay, viewer, canvas, Some(detectBbox(t.doc, t.pageNum)))
    /\ loadingOverlay' = "hidden"
    /\ tasks' = Resume(t)
    /\ out' = <<>>
    /\ UNCHANGED <<appSection, currentPDFData, currentPDFFilename, currentPage, totalPages,
                   thumbnails, viewer, canvas, anchor, budget, rangeVars>>

\* the values of #page-range-text tried with the crop button
CropTexts == {<<>>, <<"2">>}

\* the values of #page-range-select tried with it
CropSelects == {"all", "current", "custom", "odd", "even"}

\* the values of the four margin inputs and of the two checkboxes tried
\* with it
CropControls ==
    {[marginLeft |-> <<"1">>, marginTop |-> <<"2">>,
      marginRight |-> <<"3">>, marginBottom |-> <<"1", "0">>,
      shrinkToContent |-> TRUE, clipContent |-> FALSE],
     [marginLeft |-> <<>>, marginTop |-> <<"a">>,
      marginRight |-> <<"2">>, marginBottom |-> <<"0">>,
      shrinkToContent |-> FALSE, clipContent |-> TRUE]}

\* parseFloat(value || '0') || 0, on a text without sign, point or exponent
marginValue(text) == IF parseInt(text) = NULL THEN 0 ELSE Val(parseInt(text))

\* the WasmCropOptions handleCrop builds
cropOptions(controls) ==
    [margins |-> [left |-> marginValue(controls.marginLeft),
                  top |-> marginValue(controls.marginTop),
                  right |-> marginValue(controls.marginRight),
                  bottom |-> marginValue(controls.marginBottom)],
     shrinkToContent |-> controls.shrinkToContent,
     clipContent |-> controls.clipContent]

cropArgs_emptyMap(bboxes, select, text, page, controls) ==
    [options |-> Some(cropOptions(controls)),
     bboxes |-> Some(bboxes),
     pageRange |-> getPageRange(select, text, page)]

\* the arguments handleCrop gives cropPdf after pdfCopy
cropArgs(bboxes, select, text, page, controls) ==
    [options |-> Some(cropOptions(controls)),
     bboxes |-> IF Cardinality(DOMAIN bboxes) > 0 THEN Some(bboxes) ELSE NULL,
     pageRange |-> getPageRange(select, text, page)]

\* handleCrop up to the await of cropPdf(pdfCopy, options, bboxesObject,
\* pageRange); select and text are read from the page-range controls,
\* controls from the margin inputs and the checkboxes
CropClicked(select, text, controls) ==
    /\ budget.commands > 0
    /\ budget' = [budget EXCEPT !.commands = @ - 1]
    /\ CanStart
    /\ currentPDFData # NoDoc
    /\ loadingOverlay' = "shown"
    /\ tasks' = Suspend([Task("handleCrop", "cropPdf", currentPDFData, 0) EXCEPT
                   !.args = cropArgs(pageBboxes, select, text, currentPage, controls)])
    /\ out' = <<Out("cropPdf", NULL, "")>>
    /\ UNCHANGED <<appSection, currentPDFData, currentPDFFilename, currentPage, totalPages,
                   pageBboxes, thumbnails, viewer, canvas, overlay,
                   anchor, bboxSource, rangeVars>>

\* the endings /\.pdf$/i matches
PdfSuffixes == {".pdf", ".pdF", ".pDf", ".pDF", ".Pdf", ".PdF", ".PDf", ".PDF"}

\* currentPDFFilename.replace(/\.pdf$/i, '') + '-crop.pdf'; a file name is
\* kept as its part before the last dot and the rest
outputFilename(name) ==
    IF name.ext \in PdfSuffixes THEN name.base \o "-crop.pdf"
    ELSE name.base \o name.ext \o "-crop.pdf"

CropResolved_clearsMap(t) ==
    /\ t \in Running /\ t.pc = "cropPdf"
    /\ loadingOverlay' = "hidden"
    /\ tasks' = Resume(t)
    /\ out' = <<Out("download", NULL, outputFilename(fileName(currentPDFFilename)))>>
    /\ pageBboxes' = EmptyMap
    /\ UNCHANGED <<appSection, currentPDFData, currentPDFFilename, currentPage, totalPages,
                   thumbnails, viewer, canvas, overlay,
                   anchor, bboxSource, budget, rangeVars>>

\* cropPdf resolves: the bytes are downloaded under a name made from
\* currentPDFFilename
CropResolved(t) ==
    /\ t \in Running /\ t.pc = "cropPdf"
    /\ loadingOverlay' = "hidden"
    /\ tasks' = Resume(t)
    /\ out' = <<Out("download", NULL, outputFilename(fileName(currentPDFFilename)))>>
    /\ UNCHANGED <<appSection, currentPDFData, currentPDFFilename, currentPage, totalPages,
                   pageBboxes, thumbnails, viewer, canvas, overlay,
                   anchor, bboxSource, budget, rangeVars>>

\* detectBbox or cropPdf throws: alert, hideLoading
ExternalRejected(t) ==
    /\ t \in Running /\ t.pc \in {"detectBbox", "cropPdf"}
    /\ loadingOverlay' = "hidden"
    /\ tasks' = Resume(t)
    /\ out' = <<Out("alert", NULL, "Failed")>>
    /\ UNCHANGED <<appSection, currentPDFData, currentPDFFilename, currentPage, totalPages,
                   pageBboxes, thumbnails, viewer, canvas, overlay,
                   anchor, bboxSource, budget, rangeVars>>

(***************************************************************************)
(* The application.                                                        *)
(***************************************************************************)
Tasks == Running

Next ==
    \/ \E p \in Points : PointerDown(p)
    \/ \E p \in Points : PointerMove(p)
    \/ \E p \in Points : PointerUp(p)
    \/ \E file \in Files : FileChosen(file)
    \/ \E t \in Tasks : ArrayBufferResolved(t)
    \/ \E t \in Tasks : GetDocumentResolved(t)
    \/ \E t \in Tasks : GetPageResolved(t)
    \/ \E t \in Tasks : RenderResolved(t)
    \/ \E t \in Tasks : ThumbnailRendered(t)
    \/ \E t \in Tasks : TimerFired(t)
    \/ \E t \in Tasks : AwaitRejected(t)
    \/ PrevPageClicked
    \/ NextPageClicked
    \/ \E n \in 0..3 : PageNumberEntered(n)
    \/ \E i \in 1..2 : ThumbnailClicked(i)
    \/ \E f \in ZoomFactors : Zoomed(f)
    \/ FitToPage
    \/ ResetClicked
    \/ AutoDetectClicked
    \/ \E t \in Tasks : DetectResolved(t)
    \/ \E sel \in CropSelects, text \in CropTexts, controls \in CropControls :
          CropClicked(sel, text, controls)
    \/ \E t \in Tasks : CropResolved(t)
    \/ \E t \in Tasks : ExternalRejected(t)

Spec == Init /\ [][Next]_vars

(***************************************************************************)
(* The application without gestures and zoom, with room for two async      *)
(* functions suspended at once: loads, navigation, auto-detect and crop    *)
(* overlapping each other.                                                 *)
(***************************************************************************)
InitAsync ==
    /\ InitApp
    /\ budget = [tasks |-> MaxAsyncTasks, commands |-> MaxAsyncCommands]
    /\ rangeText = <<>>
    /\ rangeSelect = "all"
    /\ pages = NULL
    /\ pageRange = NULL

NextAsync ==
    \/ \E file \in Files : FileChosen(file)
    \/ \E t \in Tasks : ArrayBufferResolved(t)
    \/ \E t \in Tasks : GetDocumentResolved(t)
    \/ \E t \in Tasks : GetPageResolved(t)
    \/ \E t \in Tasks : RenderResolved(t)
    \/ \E t \in Tasks : ThumbnailRendered(t)
    \/ \E t \in Tasks : TimerFired(t)
    \/ \E t \in Tasks : AwaitRejected(t)
    \/ PrevPageClicked
    \/ NextPageClicked
    \/ \E n \in 0..3 : PageNumberEntered(n)
    \/ \E i \in 1..2 : ThumbnailClicked(i)
    \/ AutoDetectClicked
    \/ \E t \in Tasks : DetectResolved(t)
    \/ \E sel \in CropSelects, text \in CropTexts, controls \in CropControls :
          CropClicked(sel, text, controls)
    \/ \E t \in Tasks : CropResolved(t)
    \/ \E t \in Tasks : ExternalRejected(t)

SpecAsync == InitAsync /\ [][NextAsync]_vars

(***************************************************************************)
(* The overlay alone, as its class offers it: gestures, disable() and      *)
(* enable().  The application itself never calls disable().                *)
(***************************************************************************)
\* enable(): the listeners on the page canvas are attached
enable(o) == [o EXCEPT !.canvasListeners = TRUE]

\* disable(): the listeners on the page canvas and on the document are removed
disable(o) == [o EXCEPT !.canvasListeners = FALSE, !.documentListeners = FALSE]

EnableCalled ==
    /\ overlay' = enable(overlay)
    /\ out' = <<>>
    /\ UNCHANGED <<appVars, viewer, canvas, tasks, anchor, bboxSource, budget, rangeVars>>

DisableCalled ==
    /\ overlay' = disable(overlay)
    /\ out' = <<>>
    /\ UNCHANGED <<appVars, viewer, canvas, tasks, anchor, bboxSource, budget, rangeVars>>

NextOverlay ==
    \/ \E p \in Points : PointerDown(p)
    \/ \E p \in Points : PointerMove(p)
    \/ \E p \in Points : PointerUp(p)
    \/ EnableCalled
    \/ DisableCalled

SpecOverlay == Init /\ [][NextOverlay]_vars

(***************************************************************************)
(* The viewer's scale alone: setScale with any value, fit-to-width,        *)
(* fit-to-page and the layout step of renderPage, in containers of many    *)
(* sizes, for the pages of both documents.                                 *)
(***************************************************************************)
\* values handed to setScale: negative, zero, below, inside and above the range
ScaleValues == {Num(-1), Num(0), Rat(1, 4), Rat(1, 2), Rat(7, 4), Num(3), Num(10)}

\* sizes of #canvas-container, from not laid out (0) to very large
ContainerSides == {0, 30, 60, 260, 5000}
Containers ==
    {[clientWidth |-> w, clientHeight |-> h] : w \in ContainerSides, h \in ContainerSides}

InitScale ==
    /\ InitApp
    /\ budget = [tasks |-> MaxTasks, commands |-> MaxZooms]
    /\ rangeText = <<>>
    /\ rangeSelect = "all"
    /\ pages = NULL
    /\ pageRange = NULL

\* setScale(x): the scale is set
SetScaleCalled(x) ==
    /\ viewer' = setScale(viewer, x)
    /\ UNCHANGED <<appVars, canvas, overlay, tasks, out, anchor, bboxSource,
                   budget, rangeVars>>

\* zoomIn, zoomOut or a wheel zoom: setScale(scale * factor)
ZoomCalled(factor) ==
    /\ budget.commands > 0
    /\ budget' = [budget EXCEPT !.commands = @ - 1]
    /\ viewer' = setScale(viewer, RMul(viewer.scale, factor))
    /\ UNCHANGED <<appVars, canvas, overlay, tasks, out, anchor, bboxSource, rangeVars>>

FitToWidthCalled(container) ==
    /\ viewer' = fitToWidth(viewer, container)
    /\ UNCHANGED <<appVars, canvas, overlay, tasks, out, anchor, bboxSource,
                   budget, rangeVars>>

FitToPageCalled ==
    /\ viewer' = [viewer EXCEPT !.manualScale = FALSE]
    /\ UNCHANGED <<appVars, canvas, overlay, tasks, out, anchor, bboxSource,
                   budget, rangeVars>>

\* renderPage(pageNum) of document doc gets its page: scale, viewport, canvases
PageLaidOut(doc, pageNum, container) ==
    /\ viewer' = renderPageLayout(viewer, doc, pageNum, container)
    /\ canvas' = canvasStyleSize(viewer')
    /\ overlay' = clear(overlay)
    /\ UNCHANGED <<appVars, tasks, out, anchor, bboxSource, budget, rangeVars>>

NextScale ==
    \/ \E x \in ScaleValues : SetScaleCalled(x)
    \/ \E f \in ZoomFactors : ZoomCalled(f)
    \/ \E c \in Containers : FitToWidthCalled(c)
    \/ FitToPageCalled
    \/ \E doc \in Files, c \in Containers :
          \E pageNum \in 1..numPages(doc) : PageLaidOut(doc, pageNum, c)

SpecScale == InitScale /\ [][NextScale]_vars

(***************************************************************************)
(* Properties of the application, under Spec.                              *)
(***************************************************************************)
\* the step in which handleFileUpload reaches hideLoading() on its success
\* path: the last thumbnail is in place
LoadCompletes ==
    \E t \in Tasks : /\ t.op = "handleFileUpload"
                     /\ t.pageNum + 1 > totalPages
                     /\ ThumbnailRendered(t)

\* the step in which a pointer-up ends a gesture
GestureCompletes == overlay.isDrawing /\ \E p \in Points : PointerUp(p)

\* C1: when a load completes, every box in the selection map was made for
\* the document just loaded: none was drawn on, or detected in, a document
\* loaded before it.
C1_LoadClearsSelections ==
    [][LoadCompletes =>
         \A k \in DOMAIN pageBboxes' : bboxSource'[k] \in {NoDoc, currentPDFData'}]_vars

ZeroArea(rect) == rect.width = Num(0) \/ rect.height = Num(0)

\* C2: a gesture that completes with a rectangle of zero width or zero
\* height leaves the selection map as it was.
C2_ZeroAreaNotStored ==
    [][(GestureCompletes /\ ZeroArea(Val(overlay'.drawn.rect))) =>
         pageBboxes' = pageBboxes]_vars

\* device rectangles inside the canvas, the one on the overlay among them
DeviceRects ==
    {[x |-> x1, y |-> y1, width |-> RSub(x2, x1), height |-> RSub(y2, y1)] :
        x1 \in {Num(0), Num(50)}, x2 \in {Num(50), canvas.width},
        y1 \in {Num(0), Num(80)}, y2 \in {Num(80), canvas.height}}
    \cup (IF overlay.drawn.rect = NULL THEN {} ELSE {Val(overlay.drawn.rect)})

\* page boxes: the stored ones, the overlay's, the detected ones
PageBoxes ==
    {pageBboxes[k] : k \in DOMAIN pageBboxes}
    \cup (IF overlay.currentBbox = NULL THEN {} ELSE {Val(overlay.currentBbox)})
    \cup {detectBbox(d, i) : d \in Files, i \in 0..1}

\* C3: with a page rendered, at whatever scale the viewer holds, converting
\* a device rectangle to a page box and back gives the rectangle, and
\* converting a page box to a device rectangle and back gives the box.
C3_TransformsAreInverses ==
    viewer.currentViewport # NULL =>
        /\ \A r \in DeviceRects :
              pdfBboxToCanvasRect(viewer, canvasRectToPDFBbox(viewer, r)) = r
        /\ \A b \in PageBoxes :
              canvasRectToPDFBbox(viewer, pdfBboxToCanvasRect(viewer, b)) = b

\* C3 witness: a gesture was completed on a page rendered at scale 8/5
C3_Witness ==
    /\ viewer.currentViewport # NULL
    /\ viewer.scale = Rat(8, 5)
    /\ overlay.currentBbox # NULL
    /\ overlay.drawn.rect # NULL
    /\ ~ZeroArea(Val(overlay.drawn.rect))

InsidePage(b, dims) ==
    /\ RLe(Num(0), b.left) /\ RLe(b.left, b.right) /\ RLe(b.right, dims.width)
    /\ RLe(Num(0), b.bottom) /\ RLe(b.bottom, b.top) /\ RLe(b.top, dims.height)

\* C4: every box the overlay hands to onBboxChange or onBboxComplete while a
\* page is rendered lies inside that page.
C4_ReportedBoxesInsidePage ==
    \A i \in 1..Len(out) :
        (/\ out[i].what \in {"onBboxChange", "onBboxComplete"}
         /\ out[i].bbox # NULL
         /\ getPageDimensions(viewer) # NULL)
        => InsidePage(Val(out[i].bbox), Val(getPageDimensions(viewer)))

\* C5: a gesture completed while no page is rendered yields no box and
\* stores nothing in the selection map.
C5_NoPageNoBox ==
    [][(GestureCompletes /\ viewer.currentViewport = NULL) =>
         (pageBboxes' = pageBboxes /\ overlay'.currentBbox = NULL)]_vars

\* C6: the overlay goes from Idle to Drawing only in a pointer-down, which
\* makes the pointer position the anchor, and from Drawing to Idle only in
\* a pointer-up; no other step (pointer-move, setBbox, clear, a page render)
\* changes whether it is Drawing.
C6_GestureStateTransitions ==
    [][/\ (~overlay.isDrawing /\ overlay'.isDrawing) =>
             \E p \in Points : /\ PointerDown(p)
                               /\ overlay'.startX = Num(p[1])
                               /\ overlay'.startY = Num(p[2])
       /\ (overlay.isDrawing /\ ~overlay'.isDrawing) =>
             \E p \in Points : PointerUp(p)]_vars

\* C6 witness: setBbox has run in the middle of a gesture (the overlay holds
\* a box and its start corner is no longer the anchor) and the overlay is
\* still Drawing
C6_Witness ==
    /\ overlay.isDrawing
    /\ overlay.currentBbox # NULL
    /\ <<overlay.startX, overlay.startY>> # <<Num(anchor[1]), Num(anchor[2])>>

Clamp(x, hi) == RMax(Num(0), RMin(x, hi))

\* the page box of the device rectangle spanned by (ax, ay) and (bx, by),
\* cut to the canvas, on the page the viewer shows
SpannedBox(v, cv, ax, ay, bx, by) ==
    LET h == Val(getPageDimensions(v)).height
    IN  [left |-> RDiv(Clamp(RMin(ax, bx), cv.width), v.scale),
         bottom |-> RSub(h, RDiv(Clamp(RMax(ay, by), cv.height), v.scale)),
         right |-> RDiv(Clamp(RMax(ax, bx), cv.width), v.scale),
         top |-> RSub(h, RDiv(Clamp(RMin(ay, by), cv.height), v.scale))]

\* C7: a pointer-up in Drawing leaves the overlay Idle, makes the finalized
\* box its current box and calls onBboxComplete once, with that box, and
\* nothing else; a pointer-up in Idle calls nothing and changes nothing.
C7_PointerUpCompletesOnce ==
    [][\A p \in Points : PointerUp(p) =>
          IF overlay.isDrawing
          THEN /\ ~overlay'.isDrawing
               /\ overlay'.currentBbox # NULL
               /\ out' = <<Out("onBboxComplete", overlay'.currentBbox, "")>>
               /\ viewer.currentViewport # NULL =>
                     Val(overlay'.currentBbox) =
                        SpannedBox(viewer, canvas, overlay.startX, overlay.startY,
                                   Num(p[1]), Num(p[2]))
          ELSE out' = <<>> /\ overlay' = overlay /\ pageBboxes' = pageBboxes]_vars

\* C7 witness: a gesture on a rendered page has just completed with a box
\* of positive area
C7_Witness ==
    /\ ~overlay.isDrawing
    /\ viewer.currentViewport # NULL
    /\ out = <<Out("onBboxComplete", overlay.currentBbox, "")>>
    /\ overlay.currentBbox # NULL
    /\ RLt(Val(overlay.currentBbox).left, Val(overlay.currentBbox).right)
    /\ RLt(Val(overlay.currentBbox).bottom, Val(overlay.currentBbox).top)

\* C8: a pointer-move in Drawing, on a rendered page, calls onBboxChange with
\* the page box of the rectangle spanned by the anchor of the gesture and
\* the pointer; a pointer-move in Idle calls nothing and changes nothing.
C8_PointerMoveReportsSpannedBox ==
    [][\A p \in Points : PointerMove(p) =>
          IF overlay.isDrawing
          THEN viewer.currentViewport # NULL =>
                  out' = <<Out("onBboxChange",
                               Some(SpannedBox(viewer, canvas,
                                               Num(anchor[1]), Num(anchor[2]),
                                               Num(p[1]), Num(p[2]))), "")>>
          ELSE out' = <<>> /\ overlay' = overlay /\ pageBboxes' = pageBboxes]_vars

(***************************************************************************)
(* The page-range controls on their own: #page-range-select holds one of   *)
(* its options, #page-range-text one of the texts below, and handleCrop    *)
(* reads them through getPageRange().                                      *)
(***************************************************************************)
\* the characters the texts are made of
Chars == {"0", "1", "2", "3", "-", ",", " ", "a"}

\* "1-3,5", "1-3,2,3-4", "5-3" and "5-3,2-1"
ExampleTexts ==
    {<<"1", "-", "3", ",", "5">>,
     <<"1", "-", "3", ",", "2", ",", "3", "-", "4">>,
     <<"5", "-", "3">>,
     <<"5", "-", "3", ",", "2", "-", "1">>}

Texts == UNION {[1..n -> Chars] : n \in 0..MaxTextLen} \cup ExampleTexts

\* the options of #page-range-select
RangeSelects == {"all", "current", "custom", "odd", "even"}

InitRange ==
    /\ InitApp
    /\ budget = [tasks |-> MaxTasks, commands |-> MaxCommands]
    /\ rangeText \in Texts
    /\ rangeSelect \in RangeSelects
    /\ pages = NULL
    /\ pageRange = NULL

\* getPageRange() is called: pageRange becomes <<what it returns>>, and
\* pages <<what parsePageRange returns>> when getPageRange calls it
GetPageRangeCalled ==
    /\ pageRange' = Some(getPageRange(rangeSelect, rangeText, currentPage))
    /\ pages' = IF rangeSelect = "custom" THEN Some(parsePageRange(rangeText))
                                          ELSE pages
    /\ UNCHANGED <<appVars, viewer, canvas, overlay, tasks, out, anchor,
                   bboxSource, budget, rangeText, rangeSelect>>

NextRange == GetPageRangeCalled

SpecRange == InitRange /\ [][NextRange]_vars

(***************************************************************************)
(* Properties of the page-range functions, under SpecRange.                *)
(***************************************************************************)
\* the comma-separated tokens of a text, blanks around them removed
Tokens(text) == [i \in 1..Len(split(text, ",")) |-> trim(split(text, ",")[i])]

\* s is a number: digits only, at least one
IsNumber(s) == s # <<>> /\ \A i \in 1..Len(s) : s[i] \in Digits

\* s is a 1-based page number
IsPageNumber(s) == IsNumber(s) /\ decimal(s) >= 1

\* tok is "start-end", both page numbers, blanks allowed around them
IsPageInterval(tok) ==
    /\ Len(split(tok, "-")) = 2
    /\ IsPageNumber(trim(split(tok, "-")[1]))
    /\ IsPageNumber(trim(split(tok, "-")[2]))

IsValidToken(tok) == IsPageNumber(tok) \/ IsPageInterval(tok)

\* the pages a valid token names
TokenPages(tok) ==
    IF IsPageNumber(tok) THEN {decimal(tok)}
    ELSE decimal(trim(split(tok, "-")[1])) .. decimal(trim(split(tok, "-")[2]))

NamedPages(text) == UNION {TokenPages(Tokens(text)[i]) : i \in 1..Len(Tokens(text))}

AllTokensValid(text) == \A i \in 1..Len(Tokens(text)) : IsValidToken(Tokens(text)[i])

\* tok is empty, or not a number, or a range with a missing or non-numeric
\* bound
IsUnparseableToken(tok) ==
    /\ ~IsNumber(tok)
    /\ ~(/\ Len(split(tok, "-")) = 2
         /\ IsNumber(trim(split(tok, "-")[1]))
         /\ IsNumber(trim(split(tok, "-")[2])))

AllTokensUnparseable(text) ==
    \A i \in 1..Len(Tokens(text)) : IsUnparseableToken(Tokens(text)[i])

StrictlyAscending(seq) == \A i \in 1..(Len(seq) - 1) : seq[i] < seq[i + 1]

Elements(seq) == {seq[i] : i \in 1..Len(seq)}

Text_1to3_5 == <<"1", "-", "3", ",", "5">>
Text_1to3_2_3to4 == <<"1", "-", "3", ",", "2", ",", "3", "-", "4">>

\* C9: when every token of the text is a page number or a start-end range,
\* the list parsePageRange returns is strictly ascending (so it has no
\* duplicates) and holds exactly p - 1 for every page p some token names;
\* "1-3,5" gives [0,1,2,4] and "1-3,2,3-4" gives [0,1,2,3].
C9_ParserOnValidTokens ==
    (pages # NULL /\ AllTokensValid(rangeText)) =>
        /\ StrictlyAscending(Val(pages))
        /\ Elements(Val(pages)) = {p - 1 : p \in NamedPages(rangeText)}
        /\ (rangeText = Text_1to3_5 => Val(pages) = <<0, 1, 2, 4>>)
        /\ (rangeText = Text_1to3_2_3to4 => Val(pages) = <<0, 1, 2, 3>>)

\* C9 witness: the parser has run on "1-3,2,3-4", whose tokens overlap
C9_Witness ==
    /\ pages # NULL
    /\ rangeText = Text_1to3_2_3to4
    /\ AllTokensValid(rangeText)
    /\ Val(pages) = <<0, 1, 2, 3>>

\* C10: with the custom option selected and a text all of whose tokens are
\* unparseable (the empty text among them), getPageRange returns null: no
\* empty list, and no list with a value read out of an unparseable token.
C10_UnparseableGivesNull ==
    (pageRange # NULL /\ rangeSelect = "custom" /\ AllTokensUnparseable(rangeText)) =>
        Val(pageRange) = NULL

\* tok is "start-end" with start > end
IsReversedRange(tok) ==
    /\ IsPageInterval(tok)
    /\ decimal(trim(split(tok, "-")[1])) > decimal(trim(split(tok, "-")[2]))

AllTokensReversed(text) ==
    \A i \in 1..Len(Tokens(text)) : IsReversedRange(Tokens(text)[i])

\* the pages named by the valid tokens of the text that are not reversed
PagesOfOtherTokens(text) ==
    UNION {TokenPages(Tokens(text)[i]) :
              i \in {j \in 1..Len(Tokens(text)) : ~IsReversedRange(Tokens(text)[j])}}

Text_5to3 == <<"5", "-", "3">>

\* C11: a reversed range adds no index to what parsePageRange returns: among
\* valid tokens the result holds the pages of the other tokens only, and
\* for a text of reversed ranges only, such as "5-3", it is the empty list
\* (which getPageRange hands on as null).
C11_ReversedRangeGivesNothing ==
    (pages # NULL /\ AllTokensValid(rangeText)) =>
        /\ Elements(Val(pages)) = {p - 1 : p \in PagesOfOtherTokens(rangeText)}
        /\ AllTokensReversed(rangeText) =>
              (Val(pages) = <<>> /\ Val(pageRange) = NULL)

\* C11 witness: the parser has run on "5-3"
C11_Witness ==
    /\ pages # NULL
    /\ rangeText = Text_5to3
    /\ AllTokensReversed(rangeText)
    /\ Val(pages) = <<>>

(***************************************************************************)
(* Properties of crop, auto-detect and navigation.                         *)
(***************************************************************************)
\* the zero-based indices, ascending, of the pages of an n-page document
\* whose 1-based number is odd (parity 0) or even (parity 1)
IndicesOfParity(n, parity) ==
    LET S == {k \in 0..(n - 1) : k % 2 = parity}
    IN  CHOOSE seq \in [1..Cardinality(S) -> S] :
           Elements(seq) = S /\ StrictlyAscending(seq)

\* the cropPdf calls in flight after the step
CropCalls == {t \in BagToSet(tasks') : t.op = "handleCrop"}

\* C12: with a document of at least one page loaded, a click on crop while
\* the odd (even) option is selected calls cropPdf with the indices of the
\* odd-numbered (even-numbered) pages as its page list, not with null.
C12_OddEvenSelected ==
    [][\A text \in CropTexts, controls \in CropControls :
          /\ (CropClicked("odd", text, controls) /\ totalPages >= 1) =>
                \A t \in CropCalls :
                   t.args.pageRange = Some(IndicesOfParity(totalPages, 0))
          /\ (CropClicked("even", text, controls) /\ totalPages >= 1) =>
                \A t \in CropCalls :
                   t.args.pageRange = Some(IndicesOfParity(totalPages, 1))]_vars

\* C13: when detectBbox resolves for page index p of the document still
\* loaded, the returned box is stored under key p and under no other key,
\* and the overlay is redrawn only if page p + 1 is the one displayed,
\* whatever navigation happened while the call was in flight.
C13_DetectStoredUnderItsPage ==
    [][\A t \in Tasks :
          (DetectResolved(t) /\ t.doc = currentPDFData) =>
             /\ t.pageNum \in DOMAIN pageBboxes'
             /\ pageBboxes'[t.pageNum] = detectBbox(t.doc, t.pageNum)
             /\ \A k \in DOMAIN pageBboxes' \ {t.pageNum} :
                   k \in DOMAIN pageBboxes /\ pageBboxes'[k] = pageBboxes[k]
             /\ currentPage # t.pageNum + 1 => overlay' = overlay]_vars

\* the steps in which a navigation to page t.pageNum completes
NavigationCompleted(t) ==
    RenderResolved(t) /\ t.op \in {"navigate", "thumbnailClick"}

\* the rectangle drawn on the overlay is the place of box b on the page on
\* display (a box that does not fit on that page is drawn clipped)
DrawnAt(o, v, b) ==
    /\ o.drawn.rect # NULL
    /\ InsidePage(b, Val(getPageDimensions(v))) =>
          canvasRectToPDFBbox(v, Val(o.drawn.rect)) = b

StartedCropCalls == {t \in BagToSet(tasks' (-) tasks) : t.op = "handleCrop"}

\* the number a margin input holding s stands for
MarginOf(s) == IF IsNumber(s) THEN decimal(s) ELSE 0

\* C15: a click on crop calls cropPdf with the whole selection map (null
\* if the map is empty), with the page list of the page-range selection,
\* and with options holding the four margins and the two flags as the
\* controls show them at the click.
C15_CropArguments ==
    [][\A t \in StartedCropCalls :
          \A sel \in CropSelects, text \in CropTexts, controls \in CropControls :
             CropClicked(sel, text, controls) =>
                /\ t.doc = currentPDFData
                /\ t.args.bboxes = IF pageBboxes = EmptyMap THEN NULL
                                   ELSE Some(pageBboxes)
                /\ t.args.pageRange = getPageRange(sel, text, currentPage)
                /\ t.args.options # NULL
                /\ LET o == Val(t.args.options)
                   IN  /\ o.margins.left = MarginOf(controls.marginLeft)
                       /\ o.margins.top = MarginOf(controls.marginTop)
                       /\ o.margins.right = MarginOf(controls.marginRight)
                       /\ o.margins.bottom = MarginOf(controls.marginBottom)
                       /\ o.shrinkToContent = controls.shrinkToContent
                       /\ o.clipContent = controls.clipContent]_vars

\* a cropPdf call in flight that was given the one stored box, a page list
\* and a bottom margin of 10
C15_Witness ==
    \E t \in Tasks :
       /\ t.op = "handleCrop"
       /\ t.args.bboxes # NULL
       /\ Val(t.args.bboxes) = pageBboxes
       /\ DOMAIN pageBboxes = {0}
       /\ t.args.pageRange # NULL
       /\ Val(t.args.options).margins.bottom = 10

(***************************************************************************)
(* Properties of the failure paths.                                        *)
(***************************************************************************)
\* the async functions of operation op that are suspended
InFlight(op) == {t \in Tasks : t.op = op}

\* C16: while no document has ever reached the viewer and no load is in
\* progress (every load so far failed before getDocument resolved, or none
\* was made), the stored bytes, file name, selection map, page count and
\* current page are those of the start.
C16_FailedLoadRestoresState ==
    (viewer.pdfDocument = NoDoc /\ InFlight("handleFileUpload") = {})
    => /\ currentPDFData = NoDoc
       /\ currentPDFFilename = NoDoc
       /\ pageBboxes = EmptyMap
       /\ totalPages = 0
       /\ currentPage = 1

\* C17: once every load, crop and auto-detect that was started has ended,
\* by success or by failure, the loading overlay is hidden.
C17_NoLoadingLock ==
    (InFlight("handleFileUpload") \cup InFlight("handleAutoDetect")
        \cup InFlight("handleCrop") = {})
    => loadingOverlay = "hidden"

\* a load has just failed after the document bytes were stored: the alert
\* is out, nothing is in flight and the loading overlay is hidden
C17_Witness ==
    /\ tasks = EmptyBag
    /\ currentPDFData # NoDoc
    /\ Len(out) = 1 /\ out[1].what = "alert"
    /\ loadingOverlay = "hidden"

\* C18: every rejection of an awaited call (load, page render for a
\* navigation, a zoom or a thumbnail click, auto-detect, crop) puts out an
\* alert that carries the message of the error.
C18_FailuresAlerted ==
    [][\A t \in Tasks :
          (AwaitRejected(t) \/ ExternalRejected(t)) =>
             /\ Len(out') = 1
             /\ out'[1].what = "alert"
             /\ out'[1].msg = "Failed"]_vars

\* the name the cropped copy of document doc is to be saved under
CropNameOf(doc) == IF doc = 1 THEN "a-crop.pdf" ELSE "b-crop.pdf"

\* C19: when cropPdf resolves, the download is named after the document
\* whose bytes were given to it (a.PDF gives a-crop.pdf, b.pdf gives
\* b-crop.pdf), whatever was loaded while the call was in flight.
C19_DownloadNamedAfterCroppedDocument ==
    [][\A t \in Tasks :
          CropResolved(t) =>
             /\ Len(out') = 1
             /\ out'[1].what = "download"
             /\ out'[1].msg = CropNameOf(t.doc)]_vars

(***************************************************************************)
(* Properties of the coordinate conversion.                                *)
(***************************************************************************)
\* box b is device rectangle r seen at scale s on a page of height H:
\* left = x/s, right = (x + width)/s, top = H - y/s, bottom = H - (y + height)/s
IsBoxOf(b, r, s, H) ==
    /\ RMul(b.left, s) = r.x
    /\ RMul(b.right, s) = RAdd(r.x, r.width)
    /\ RMul(RSub(H, b.top), s) = r.y
    /\ RMul(RSub(H, b.bottom), s) = RAdd(r.y, r.height)

\* viewers that differ from the one at hand in everything but the scale, the
\* page on display and its viewport
OtherViewers ==
    {[viewer EXCEPT !.manualScale = ~@, !.onPageChange = ~@,
                    !.currentPage = n, !.totalPages = n, !.pdfDocument = n] :
        n \in 1..2}

\* C20: with a page rendered, canvasRectToPDFBbox turns the device rectangle
\* (x, y, width, height) into left = x/s, right = (x + width)/s,
\* top = H - y/s, bottom = H - (y + height)/s, s being the viewer's scale and
\* H the height of the page; no other field of the viewer changes the result.
C20_RectToBoxFormula ==
    viewer.currentViewport # NULL =>
        \A r \in DeviceRects :
           /\ IsBoxOf(canvasRectToPDFBbox(viewer, r), r, viewer.scale,
                      Val(getPageDimensions(viewer)).height)
           /\ \A v \in OtherViewers :
                 canvasRectToPDFBbox(v, r) = canvasRectToPDFBbox(viewer, r)

\* C20 witness: on a page fitted at a scale that is not a whole number a
\* gesture was completed, and the box the overlay holds is the drawn
\* rectangle converted
C20_Witness ==
    /\ viewer.currentViewport # NULL
    /\ ~viewer.manualScale
    /\ RFloor(viewer.scale) # viewer.scale
    /\ ~overlay.isDrawing
    /\ overlay.drawn.rect # NULL /\ overlay.currentBbox # NULL
    /\ ~ZeroArea(Val(overlay.drawn.rect))
    /\ IsBoxOf(Val(overlay.currentBbox), Val(overlay.drawn.rect), viewer.scale,
               Val(getPageDimensions(viewer)).height)

(***************************************************************************)
(* Properties of the overlay.                                              *)
(***************************************************************************)
\* C21: corner handles are on the overlay canvas only while the overlay is
\* Idle (not drawing) and holds a stored box; what is drawn during a gesture
\* has no handles.
C21_HandlesOnlyWhenIdle ==
    /\ overlay.drawn.handles => (~overlay.isDrawing /\ overlay.currentBbox # NULL)
    /\ overlay.isDrawing => ~overlay.drawn.handles

\* a rectangle without handles is on the canvas in the middle of a gesture
\* on a rendered page, after a pointer move
C21_Witness ==
    /\ viewer.currentViewport # NULL
    /\ overlay.isDrawing
    /\ overlay.drawn.rect # NULL
    /\ ~overlay.drawn.handles

(***************************************************************************)
(* Properties of overlapping operations.                                   *)
(***************************************************************************)
\* the page renders in flight: calls of viewer.renderPage suspended at
\* getPage or at render
RendersInFlight == {t \in Tasks : t.pc \in {"getPage", "render"}}

\* the number of suspended async functions equal to t
Copies(bag, t) == IF t \in BagToSet(bag) THEN bag[t] ELSE 0

\* C22: nothing cancels or orders page renders.  A render in flight leaves
\* the set of suspended calls only by the settlement of its own promise,
\* never because another render was started or completed; and whenever the
\* render of a navigation completes its page-change callback takes effect,
\* whatever render was requested last, so that the callbacks take effect in
\* the order of the completions.
C22_RendersNotSequenced ==
    [][/\ \A t \in RendersInFlight :
             Copies(tasks', t) < Copies(tasks, t) =>
                (GetPageResolved(t) \/ RenderResolved(t) \/ AwaitRejected(t))
       /\ \A t \in Tasks :
             NavigationCompleted(t) => currentPage' = t.pageNum]_vars

\* two navigations, to page 1 and to page 2, are both waiting for their
\* render to complete
C22_Witness ==
    \E t1, t2 \in Tasks :
       /\ t1.pc = "render" /\ t2.pc = "render"
       /\ t1.op \in {"navigate", "thumbnailClick"}
       /\ t2.op \in {"navigate", "thumbnailClick"}
       /\ t1.pageNum = 1 /\ t2.pageNum = 2
       /\ t1.doc = t2.doc

(***************************************************************************)
(* Properties of the selection map and of the page numbers.                *)
(***************************************************************************)
\* C23: every key of the selection map is a zero-based index of a page of
\* the loaded document: 0 <= key < totalPages.
C23_KeysArePageIndices ==
    \A k \in DOMAIN pageBboxes : 0 <= k /\ k < totalPages

\* C24: the selection map changes only in a step that completes a manual
\* drawing, in which detectBbox resolves, in which reset is clicked or in
\* which the bytes of a newly chosen document arrive; every other step
\* (navigation, zoom, fit-to-page, crop, renders) leaves every stored box as
\* it is.
C24_MapChangedOnlyBy ==
    [][pageBboxes' # pageBboxes =>
          \/ \E p \in Points : PointerUp(p)
          \/ \E t \in Tasks : DetectResolved(t)
          \/ ResetClicked
          \/ \E t \in Tasks : ArrayBufferResolved(t)]_vars

\* a box was detected and stored, then a zoom was started; its render is in
\* flight at the new scale and the stored box is as detected
C24_Witness ==
    /\ \E t \in Tasks : t.op = "zoom" /\ t.pc = "render"
    /\ viewer.manualScale
    /\ DOMAIN pageBboxes = {0}
    /\ pageBboxes[0] = detectBbox(currentPDFData, 0)

\* C25: with a document loaded and no load in progress, a click on crop
\* with the custom option gives cropPdf a page list (if any) in which every
\* index is one of the document's: 0 <= i < totalPages.
C25_CropIndicesValid ==
    [][\A t \in StartedCropCalls :
          \A text \in CropTexts, controls \in CropControls :
             (/\ CropClicked("custom", text, controls)
              /\ totalPages >= 1
              /\ InFlight("handleFileUpload") = {}
              /\ t.args.pageRange # NULL)
             => \A i \in 1..Len(Val(t.args.pageRange)) :
                   /\ 0 <= Val(t.args.pageRange)[i]
                   /\ Val(t.args.pageRange)[i] < totalPages]_vars

\* C26: whenever no page render is in flight, the current page of the
\* application is the current page of the viewer.
C26_CurrentPagesAgree ==
    RendersInFlight = {} => currentPage = viewer.currentPage

C28_ViewerPageInRange ==
    viewer.pdfDocument # NoDoc =>
        (1 <= viewer.currentPage /\ viewer.currentPage <= viewer.totalPages)

\* C29: the document-level move and up listeners are attached exactly when
\* the overlay is drawing.
C29_ListenersIffDrawing ==
    overlay.documentListeners <=> overlay.isDrawing

\* C30: while a load, a crop or an auto-detect is in flight the loading
\* overlay is shown.
C30_LoadingShownWhileInFlight ==
    (InFlight("handleFileUpload") \cup InFlight("handleAutoDetect")
        \cup InFlight("handleCrop") # {})
    => loadingOverlay = "shown"

====
